---- MODULE Spec2Model ----
(***************************************************************************)
(* uf2-util (src/src/main.rs): the UF2 block encoder Uf2::create, the      *)
(* serializer Uf2::as_bytes and the command-line run main.                 *)
(*                                                                         *)
(* A byte is a number in 0..255 and a Vec<u8> a sequence of bytes.  A u32  *)
(* is kept as its two 16-bit halves [hi, lo] (value hi * 65536 + lo): the  *)
(* header constants 0x9E5D5157 and 0xE48BFF56 exceed TLC's integers, and   *)
(* the halves keep the 32-bit width of the arithmetic.                     *)
(***************************************************************************)
EXTENDS Integers, Sequences, FiniteSets, TLC

VARIABLES
    pc,           \* position of the run
    hex_file,     \* the buffer handed to Uf2::create
    blocks,       \* Uf2.blocks, the image
    buf,          \* the bytes returned by Uf2::as_bytes
    panicked,     \* the run ended in a panic
    bootrom,      \* contents of the file named by --bootrom
    progdata,     \* contents of the file named by --progdata
    boot_read,    \* the bytes the read of the bootrom delivered
    prog_read,    \* the bytes the read of the progdata delivered
    data_buffer,  \* main's data_buffer
    io_failed,    \* some open, read or write step failed or fell short
    exit,         \* what main returned: "none", "Ok" or "Err"
    output,       \* contents of the output file
    num_chunks,   \* chunks.len() of the run whose chunk loop is followed
    blocks_len,   \* blocks.len() at the head of the chunk loop
    last_block,   \* the block the chunk loop pushed last
    overflowed    \* a u32 operation left the 32-bit range

vars == <<pc, hex_file, blocks, buf, panicked, bootrom, progdata, boot_read,
          prog_read, data_buffer, io_failed, exit, output, num_chunks,
          blocks_len, last_block, overflowed>>

----------------------------------------------------------------------------
(* Sizes the code writes as literals. *)

FirstChunkLen == 252
ChunkLen == 256
DataLen == 476

Min(a, b) == IF a < b THEN a ELSE b
Max(a, b) == IF a > b THEN a ELSE b
Zeros(n) == [i \in 1..n |-> 0]

----------------------------------------------------------------------------
(* u32 values and arithmetic. *)

Half == 2 ^ 16

U32(h, l) == [hi |-> h, lo |-> l]

\* The mathematical value a * 256, b + c as halves whose hi may exceed 16 bits.
Wide(h, l) == [hi |-> h + (l \div Half), lo |-> l % Half]

\* `as u32` of a usize: the low 32 bits.
as_u32(n) == U32((n \div Half) % Half, n % Half)

Fits(w) == w.hi < Half
Wrap(w) == U32(w.hi % Half, w.lo)

ExactMul256(a) == Wide(a.hi * 256, a.lo * 256)
ExactAdd(a, b) == Wide(a.hi + b.hi, a.lo + b.lo)

\* Bitwise exclusive or of two n-bit numbers.
RECURSIVE XorBits(_, _, _)
XorBits(a, b, n) ==
    IF n = 0 THEN 0
    ELSE ((a + b) % 2) + 2 * XorBits(a \div 2, b \div 2, n - 1)

Xor32(a, b) == U32(XorBits(a.hi, b.hi, 16), XorBits(a.lo, b.lo, 16))
Shr32(a, n) == U32(a.hi \div (2 ^ n), (a.lo \div (2 ^ n)) + (a.hi % (2 ^ n)) * (2 ^ (16 - n)))

----------------------------------------------------------------------------
(* mod crc: CRC-32 with the standard polynomial (reflected form 0xEDB88320, *)
(* initial value and final complement all ones), one table step per byte.   *)

Crc32Poly == U32(60856, 33568)
AllOnes == U32(65535, 65535)

RECURSIVE CrcBits(_, _)
CrcBits(c, k) ==
    IF k = 0 THEN c
    ELSE CrcBits(IF c.lo % 2 = 1 THEN Xor32(Shr32(c, 1), Crc32Poly) ELSE Shr32(c, 1),
                 k - 1)

Crc32Table == [n \in 0..255 |-> CrcBits(U32(0, n), 8)]

crc_byte(crc, byte) ==
    Xor32(Crc32Table[XorBits(crc.lo % 256, byte, 8)], Shr32(crc, 8))

\* The bytes at positions from..to folded into crc, in order.
RECURSIVE CrcFold(_, _, _, _)
CrcFold(crc, bytes, from, to) ==
    IF from > to THEN crc
    ELSE IF from = to THEN crc_byte(crc, bytes[from])
    ELSE LET mid == (from + to) \div 2
             left == CrcFold(crc, bytes, from, mid)
         IN  IF left.lo >= 0 THEN CrcFold(left, bytes, mid + 1, to) ELSE crc

crc32(bytes) == Xor32(CrcFold(AllOnes, bytes, 1, Len(bytes)), AllOnes)

----------------------------------------------------------------------------
(* Uf2Block::allocate and write_little_endian. *)

magic_0 == U32(2610, 18005)      \* 0x0A324655
magic_1 == U32(40541, 20823)     \* 0x9E5D5157
flags == U32(0, 8192)            \* 0x00002000
payload_size == U32(0, 256)      \* 256
file_size == U32(58507, 65366)   \* 0xE48BFF56
magic_end == U32(2737, 28464)    \* 0x0AB16F30
base_addr == U32(4096, 0)        \* 0x10000000

allocate(target_addr, block_no, num_blocks, data) ==
    [magic_0 |-> magic_0, magic_1 |-> magic_1, flags |-> flags,
     target_addr |-> target_addr, payload_size |-> payload_size,
     block_no |-> block_no, num_blocks |-> num_blocks,
     file_size |-> file_size, data |-> data, magic_end |-> magic_end]

\* Mutant: the most significant byte first.
write_big_endian(vec, block) ==
    vec \o << block.hi \div 256, block.hi % 256, block.lo \div 256, block.lo % 256 >>

write_little_endian(vec, block) ==
    vec \o << block.lo % 256,        \* block & 0xFF
              block.lo \div 256,     \* (block & 0xFF00) >> 8
              block.hi % 256,        \* (block & 0xFF0000) >> 16
              block.hi \div 256 >>   \* block >> 24

----------------------------------------------------------------------------
(* Uf2::create. *)

\* hex_file.take(252) read to its end: at most the first 252 bytes.
first_chunk(hex) == SubSeq(hex, 1, Min(Len(hex), FirstChunkLen))

\* Mutant: the skip matches the 252 bytes the first chunk read.
remaining_bytes_after_first_chunk(hex) == SubSeq(hex, FirstChunkLen + 1, Len(hex))

\* hex_file.iter().skip(256)
remaining_bytes(hex) == SubSeq(hex, ChunkLen + 1, Len(hex))

\* Mutant: a final chunk shorter than 256 bytes is not counted.
chunks_len_whole_only(rem) == Len(rem) \div ChunkLen

\* remaining_bytes.chunks(256).len()
chunks_len(rem) == (Len(rem) \div ChunkLen) + (IF Len(rem) % ChunkLen = 0 THEN 0 ELSE 1)

\* the k-th chunk (k from 0) of remaining_bytes.chunks(256)
chunk(rem, k) == SubSeq(rem, k * ChunkLen + 1, Min((k + 1) * ChunkLen, Len(rem)))

\* for _ in data.len()..476 { data.push(0) }
pad_data(data) == data \o Zeros(Max(DataLen - Len(data), 0))

\* The first block's data: 252 bytes, their crc, zeros up to 476.
first_buffer(hex) ==
    LET read == first_chunk(hex)
        remaining == FirstChunkLen - Len(read)
        buffer == read \o Zeros(remaining)
    IN  pad_data(write_little_endian(buffer, crc32(buffer)))

\* Mutant: the first block is not counted.
total_blocks_without_first(num_blocks) == num_blocks

\* num_blocks + 1
total_blocks(num_blocks) == Wrap(ExactAdd(num_blocks, U32(0, 1)))

\* base_addr + blocks.len() as u32 * 256
target_addr(blen) == Wrap(ExactAdd(base_addr, Wrap(ExactMul256(as_u32(blen)))))

\* Whether that arithmetic, or num_blocks + 1, leaves the u32 range.
addr_overflows(blen, num_blocks) ==
    \/ ~Fits(ExactMul256(as_u32(blen)))
    \/ ~Fits(ExactAdd(base_addr, Wrap(ExactMul256(as_u32(blen)))))
    \/ ~Fits(ExactAdd(num_blocks, U32(0, 1)))

first_block(hex, num_blocks) ==
    allocate(base_addr, U32(0, 0), total_blocks(num_blocks), first_buffer(hex))

\* One pass of the chunk loop, entered with blocks.len() = blen.
chunk_block(blen, num_blocks, data) ==
    allocate(target_addr(blen), as_u32(blen), total_blocks(num_blocks), pad_data(data))

create(hex) ==
    LET rem == remaining_bytes(hex)
        n == chunks_len(rem)
        num_blocks == as_u32(n)
    IN  << first_block(hex, num_blocks) >> \o
        [k \in 1..n |-> chunk_block(k, num_blocks, chunk(rem, k - 1))]

create_overflows(hex) ==
    LET n == chunks_len(remaining_bytes(hex))
    IN  \/ ~Fits(ExactAdd(as_u32(n), U32(0, 1)))
        \/ \E k \in 1..n : addr_overflows(k, as_u32(n))

----------------------------------------------------------------------------
(* Uf2::as_bytes. *)

\* Mutant: num_blocks is written before block_no.
block_bytes_count_first(b0, block) ==
    LET b1 == write_little_endian(b0, block.magic_0)
        b2 == write_little_endian(b1, block.magic_1)
        b3 == write_little_endian(b2, block.flags)
        b4 == write_little_endian(b3, block.target_addr)
        b5 == write_little_endian(b4, block.payload_size)
        b6 == write_little_endian(b5, block.num_blocks)
        b7 == write_little_endian(b6, block.block_no)
        b8 == write_little_endian(b7, block.file_size)
        b9 == (b8 \o block.data) \o Zeros(DataLen - Len(block.data))
    IN  write_little_endian(b9, block.magic_end)

block_bytes(b0, block) ==
    LET b1 == write_little_endian(b0, block.magic_0)
        b2 == write_little_endian(b1, block.magic_1)
        b3 == write_little_endian(b2, block.flags)
        b4 == write_little_endian(b3, block.target_addr)
        b5 == write_little_endian(b4, block.payload_size)
        b6 == write_little_endian(b5, block.block_no)
        b7 == write_little_endian(b6, block.num_blocks)
        b8 == write_little_endian(b7, block.file_size)
        remaining == DataLen - Len(block.data)
        b9 == (b8 \o block.data) \o Zeros(remaining)
    IN  write_little_endian(b9, block.magic_end)

RECURSIVE as_bytes_from(_, _, _)
as_bytes_from(b0, bs, i) ==
    IF i > Len(bs) THEN b0
    ELSE as_bytes_from(block_bytes(b0, bs[i]), bs, i + 1)

as_bytes(bs) == as_bytes_from(<< >>, bs, 1)

\* 476 - block.data.len() is a usize subtraction.
as_bytes_underflows(bs) == \E i \in 1..Len(bs) : Len(bs[i].data) > DataLen

----------------------------------------------------------------------------
(* The buffers the encoder is run on. *)

MaxLen == 1030
Margin == 8
Stride == 5

\* Lengths within Margin of a multiple of 256, and every Stride-th length.
Sampled(len) ==
    \/ len % ChunkLen <= Margin
    \/ len % ChunkLen >= ChunkLen - Margin
    \/ len % Stride = 0

Lens == {len \in 0..MaxLen : Sampled(len)}

\* Offsets 252..255 of a buffer: read by neither the first chunk nor the skip.
Window == FirstChunkLen..(ChunkLen - 1)

\* The byte at offset i of a buffer of the given kind.  A "ramp" byte is below
\* 251 and differs from the bytes 4 and 256 places away; a "marked" buffer holds
\* bytes above 251 at the offsets of Window and nowhere else.
ByteAt(kind, i) ==
    CASE kind = "ff" -> 255
      [] kind = "marked" /\ i \in Window -> i
      [] OTHER -> (3 + 7 * i) % 251

Kinds == {"ramp", "marked", "ff"}

Buffer(kind, len) == [i \in 1..len |-> ByteAt(kind, i - 1)]

Inputs == {Buffer(kind, len) : kind \in Kinds, len \in Lens}

NoBlock == allocate(base_addr, U32(0, 0), U32(0, 0), << >>)

encVars == <<hex_file, blocks, buf>>
mainVars == <<bootrom, progdata, boot_read, prog_read, data_buffer, io_failed,
              exit, output>>
loopVars == <<num_chunks, blocks_len, last_block>>

EncIdle == hex_file = << >> /\ blocks = << >> /\ buf = << >>

MainIdle ==
    /\ bootrom = << >>
    /\ progdata = << >>
    /\ boot_read = << >>
    /\ prog_read = << >>
    /\ data_buffer = << >>
    /\ io_failed = FALSE
    /\ exit = "none"
    /\ output = << >>

LoopIdle == num_chunks = 0 /\ blocks_len = 0 /\ last_block = NoBlock

\* What the build does when u32 arithmetic overflows: a debug build panics, a
\* release build wraps; a run that went on after an overflow is a release build.
Outcomes(overflow, before) ==
    IF overflow /\ ~before THEN {"wrap", "panic"} ELSE {"wrap"}

----------------------------------------------------------------------------
(* Spec: Uf2::create and Uf2::as_bytes on a buffer. *)

Init ==
    /\ pc = "create"
    /\ hex_file \in Inputs
    /\ blocks = << >>
    /\ buf = << >>
    /\ panicked = FALSE
    /\ overflowed = FALSE
    /\ MainIdle
    /\ LoopIdle

\* Uf2::create(hex_file)
Create ==
    /\ pc = "create"
    /\ \E outcome \in Outcomes(create_overflows(hex_file), overflowed) :
          /\ panicked' = (outcome = "panic")
          /\ pc' = IF outcome = "panic" THEN "panic" ELSE "as_bytes"
          /\ blocks' = IF outcome = "panic" THEN blocks ELSE create(hex_file)
    /\ overflowed' = create_overflows(hex_file)
    /\ UNCHANGED <<hex_file, buf, mainVars, loopVars>>

\* uf2.as_bytes()
AsBytes ==
    /\ pc = "as_bytes"
    /\ panicked' = as_bytes_underflows(blocks)
    /\ pc' = IF as_bytes_underflows(blocks) THEN "panic" ELSE "done"
    /\ buf' = IF as_bytes_underflows(blocks) THEN buf ELSE as_bytes(blocks)
    /\ UNCHANGED <<hex_file, blocks, overflowed, mainVars, loopVars>>

Next == Create \/ AsBytes

Spec == Init /\ [][Next]_vars

----------------------------------------------------------------------------
(* Properties of the encoder and the serializer, checked under Spec. *)

\* Uf2::create has returned an image.
Created == pc \in {"as_bytes", "done"}

\* The first 252 bytes of a buffer, zeros where the buffer has ended.
Padded252(hex) == [j \in 1..252 |-> IF j <= Len(hex) THEN hex[j] ELSE 0]

\* C1: block 0 holds in data bytes [0..252) the first 252 bytes of the input,
\* zero where the input is shorter, in [252..256) the CRC-32 of those 252 bytes
\* with the least significant byte first, and zeros in [256..476).
C1_FirstBlockData ==
    Created =>
        LET d == blocks[1].data
            crc == crc32(Padded252(hex_file))
        IN  /\ Len(d) = 476
            /\ \A j \in 0..251 :
                  d[j + 1] = IF j < Len(hex_file) THEN hex_file[j + 1] ELSE 0
            /\ \A j \in 252..255 : d[j + 1] \in 0..255
            /\ d[253] + 256 * d[254] = crc.lo
            /\ d[255] + 256 * d[256] = crc.hi
            /\ \A j \in 256..475 : d[j + 1] = 0

\* An image of an input shorter than 252 bytes, with a byte and a checksum
\* that are not zero.
C1_Witness ==
    /\ Created
    /\ Len(hex_file) \in 1..251
    /\ blocks[1].data[1] # 0
    /\ SubSeq(blocks[1].data, 253, 256) # <<0, 0, 0, 0>>

\* The four bytes of buf after offset off, as a u32 written least significant
\* byte first.
FieldAt(bytes, off) ==
    U32(bytes[off + 3] + 256 * bytes[off + 4], bytes[off + 1] + 256 * bytes[off + 2])

\* C2: the output is the blocks in order as 512-byte records: magic0, magic1,
\* flags, targetAddress, payloadSize, blockIndex, totalBlocks, familyId, each
\* four bytes least significant first, the 476 data bytes, magicEnd; its length
\* is 512 times the number of blocks.
C2_Layout ==
    pc = "done" =>
        /\ Len(buf) = 512 * Len(blocks)
        /\ \A i \in 0..(Len(blocks) - 1) :
              LET off == 512 * i
                  b == blocks[i + 1]
              IN  /\ SubSeq(buf, off + 1, off + 4) = <<85, 70, 50, 10>>
                  /\ SubSeq(buf, off + 5, off + 8) = <<87, 81, 93, 158>>
                  /\ SubSeq(buf, off + 9, off + 12) = <<0, 32, 0, 0>>
                  /\ FieldAt(buf, off + 12) = b.target_addr
                  /\ SubSeq(buf, off + 17, off + 20) = <<0, 1, 0, 0>>
                  /\ FieldAt(buf, off + 20) = b.block_no
                  /\ FieldAt(buf, off + 24) = b.num_blocks
                  /\ SubSeq(buf, off + 29, off + 32) = <<86, 255, 139, 228>>
                  /\ SubSeq(buf, off + 33, off + 508) = b.data
                  /\ SubSeq(buf, off + 509, off + 512) = <<48, 111, 177, 10>>
                  /\ \A p \in (off + 1)..(off + 512) : buf[p] \in 0..255

\* A serialized image of four blocks.
C2_Witness == pc = "done" /\ Len(blocks) = 4 /\ Len(buf) = 2048

\* C3: the block at position k has blockIndex k, and every block, block 0
\* included, has totalBlocks equal to the number of blocks of the image.
C3_Sequence ==
    Created =>
        \A k \in 0..(Len(blocks) - 1) :
            /\ blocks[k + 1].block_no = U32(0, k)
            /\ blocks[k + 1].num_blocks = U32(0, Len(blocks))

\* An image of at least three blocks.
C3_Witness == Created /\ Len(blocks) >= 3 /\ blocks[1].num_blocks = U32(0, Len(blocks))

\* The least integer not below a / 256.
Ceil256(a) == -((-a) \div 256)

\* C5 as stated: for every input length L >= 0 the number of blocks is
\* ceil((L - 256) / 256) + 1.
C5_AsStated ==
    Created => Len(blocks) = Ceil256(Len(hex_file) - 256) + 1

\* C5 amended: for every input length L >= 1 the number of blocks is
\* ceil((L - 256) / 256) + 1, and the empty input gives one block.
C5_BlockCount ==
    Created =>
        Len(blocks) = IF Len(hex_file) = 0 THEN 1
                      ELSE Ceil256(Len(hex_file) - 256) + 1

\* An image whose last chunk is shorter than 256 bytes.
C5_Witness ==
    /\ Created
    /\ Len(hex_file) > 512
    /\ Len(hex_file) % 256 # 0
    /\ Len(blocks) = 3

\* Every byte of the buffer outside offsets 252..255 is at most 251.
MarksOnlyInWindow(hex) ==
    \A p \in 1..Len(hex) : (p - 1) \notin Window => hex[p] <= 251

\* C9: in block i >= 1 data byte j < 256 is input byte 256 * i + j, or zero
\* past the end of the input, data bytes [256..476) are zero and payloadSize is
\* 256 also for a short final chunk; input bytes 252..255 appear in no block.
C9_ChunkBlocks ==
    Created =>
        /\ \A i \in 1..(Len(blocks) - 1) :
              LET d == blocks[i + 1].data
              IN  /\ Len(d) = 476
                  /\ \A j \in 0..255 :
                        d[j + 1] = IF 256 * i + j < Len(hex_file)
                                   THEN hex_file[256 * i + j + 1]
                                   ELSE 0
                  /\ \A j \in 256..475 : d[j + 1] = 0
                  /\ blocks[i + 1].payload_size = U32(0, 256)
        /\ MarksOnlyInWindow(hex_file) =>
              \A i \in 0..(Len(blocks) - 1) : \A j \in 0..475 :
                  (i = 0 /\ j \in Window) \/ blocks[i + 1].data[j + 1] <= 251

\* An image of a marked input with a short final chunk.
C9_Witness ==
    /\ Created
    /\ Len(hex_file) > 512
    /\ Len(hex_file) % 256 = 1
    /\ hex_file[253] = 252
    /\ Len(blocks) = 3
    /\ blocks[3].data[1] # 0

----------------------------------------------------------------------------
(* SpecMain: the command-line run, main. *)

BootLens == {0, 1, 4, 251, 252, 253, 256, 257, 300}
ProgLens == {0, 1, 255, 256, 257, 513}

BootFile(len) == [i \in 1..len |-> (11 + 5 * (i - 1)) % 251]
ProgFile(len) == [i \in 1..len |-> (3 + 7 * (i - 1)) % 251]

\* How many bytes a read that fails may have delivered before it fails.
Cuts(len) == {0, len \div 2, len}

\* read_to_end on a file: all of it, or an error after some of it.
ReadOutcomes(file) ==
    {[bytes |-> file, failed |-> FALSE]} \cup
    {[bytes |-> SubSeq(file, 1, n), failed |-> TRUE] : n \in Cuts(Len(file))}

\* file.write(bytes): an error, or the count of bytes written, which may be
\* less than asked.
WriteOutcomes(bytes) ==
    {[bytes |-> bytes, failed |-> FALSE]} \cup
    {[bytes |-> SubSeq(bytes, 1, n), failed |-> TRUE] : n \in {0, Len(bytes) \div 2}}

MainInit ==
    /\ pc = "open_bootrom"
    /\ bootrom \in {BootFile(len) : len \in BootLens}
    /\ progdata \in {ProgFile(len) : len \in ProgLens}
    /\ boot_read = << >>
    /\ prog_read = << >>
    /\ data_buffer = << >>
    /\ io_failed = FALSE
    /\ exit = "none"
    /\ output = << >>
    /\ panicked = FALSE
    /\ overflowed = FALSE
    /\ EncIdle
    /\ LoopIdle

\* let mut inp_file = File::open(args.bootrom)?;
OpenBootrom ==
    /\ pc = "open_bootrom"
    /\ \E ok \in BOOLEAN :
          /\ pc' = IF ok THEN "open_progdata" ELSE "returned"
          /\ exit' = IF ok THEN exit ELSE "Err"
          /\ io_failed' = ~ok
    /\ UNCHANGED <<encVars, panicked, overflowed, loopVars, bootrom, progdata,
                   boot_read, prog_read, data_buffer, output>>

\* let mut prog_file = File::open(args.progdata)?;
OpenProgdata ==
    /\ pc = "open_progdata"
    /\ \E ok \in BOOLEAN :
          /\ pc' = IF ok THEN "read_bootrom" ELSE "returned"
          /\ exit' = IF ok THEN exit ELSE "Err"
          /\ io_failed' = ~ok
    /\ UNCHANGED <<encVars, panicked, overflowed, loopVars, bootrom, progdata,
                   boot_read, prog_read, data_buffer, output>>

\* inp_file.read_to_end(&mut data_buffer); the Result is dropped.
ReadBootrom ==
    /\ pc = "read_bootrom"
    /\ \E r \in ReadOutcomes(bootrom) :
          /\ data_buffer' = data_buffer \o r.bytes
          /\ boot_read' = r.bytes
          /\ io_failed' = (io_failed \/ r.failed)
    /\ pc' = "pad"
    /\ UNCHANGED <<encVars, panicked, overflowed, loopVars, bootrom, progdata,
                   prog_read, exit, output>>

\* for _ in data_buffer.len()..256 { data_buffer.push(0); }
pad_bootrom(buffer) == buffer \o Zeros(Max(ChunkLen - Len(buffer), 0))

Pad ==
    /\ pc = "pad"
    /\ data_buffer' = pad_bootrom(data_buffer)
    /\ pc' = "read_progdata"
    /\ UNCHANGED <<encVars, panicked, overflowed, loopVars, bootrom, progdata,
                   boot_read, prog_read, io_failed, exit, output>>

\* prog_file.read_to_end(&mut data_buffer); the Result is dropped.
ReadProgdata ==
    /\ pc = "read_progdata"
    /\ \E r \in ReadOutcomes(progdata) :
          /\ data_buffer' = data_buffer \o r.bytes
          /\ prog_read' = r.bytes
          /\ io_failed' = (io_failed \/ r.failed)
    /\ pc' = "main_create"
    /\ UNCHANGED <<encVars, panicked, overflowed, loopVars, bootrom, progdata,
                   boot_read, exit, output>>

\* let uf2_file = Uf2::create(&data_buffer.as_slice());
MainCreate ==
    /\ pc = "main_create"
    /\ \E outcome \in Outcomes(create_overflows(data_buffer), overflowed) :
          /\ panicked' = (outcome = "panic")
          /\ pc' = IF outcome = "panic" THEN "panic" ELSE "create_output"
          /\ blocks' = IF outcome = "panic" THEN blocks ELSE create(data_buffer)
    /\ overflowed' = create_overflows(data_buffer)
    /\ hex_file' = data_buffer
    /\ UNCHANGED <<buf, loopVars, mainVars>>

\* let mut file = File::create(args.output)?;
CreateOutput ==
    /\ pc = "create_output"
    /\ \E ok \in BOOLEAN :
          /\ pc' = IF ok THEN "write" ELSE "returned"
          /\ exit' = IF ok THEN exit ELSE "Err"
          /\ io_failed' = (io_failed \/ ~ok)
    /\ UNCHANGED <<encVars, panicked, overflowed, loopVars, bootrom, progdata,
                   boot_read, prog_read, data_buffer, output>>

\* file.write(uf2_file.as_bytes().as_slice()); return Ok(());
\* the Result of the write is dropped.
WriteOutput ==
    /\ pc = "write"
    /\ buf' = as_bytes(blocks)
    /\ \E w \in WriteOutcomes(as_bytes(blocks)) :
          /\ output' = w.bytes
          /\ io_failed' = (io_failed \/ w.failed)
    /\ exit' = "Ok"
    /\ pc' = "returned"
    /\ UNCHANGED <<hex_file, blocks, panicked, overflowed, loopVars, bootrom,
                   progdata, boot_read, prog_read, data_buffer>>

MainNext ==
    \/ OpenBootrom
    \/ OpenProgdata
    \/ ReadBootrom
    \/ Pad
    \/ ReadProgdata
    \/ MainCreate
    \/ CreateOutput
    \/ WriteOutput

SpecMain == MainInit /\ [][MainNext]_vars

----------------------------------------------------------------------------
(* Properties of the command-line run, checked under SpecMain. *)

\* Uf2::create has returned an image to main.
Encoded == Len(blocks) > 0

\* C6: a failure of any open, read or write step ends the run in an error: no
\* run in which an I/O step failed or fell short returns success.
C6_AsStated == exit = "Ok" => ~io_failed

\* The least multiple of 256 that is not below len.
NextBoundary(len) == 256 * Ceil256(len)

\* C7: for every bootloader length, also above 256, the buffer main passes to
\* Uf2::create is the bootloader bytes, zero bytes up to the next multiple of
\* 256, then the program bytes: the program starts at a multiple of 256.
\* Stated of the runs in which no I/O step fails, and with the 256 zero bytes
\* main gives an empty bootloader allowed.
C7_AsStated ==
    (Encoded /\ ~io_failed) =>
        \E pad \in {NextBoundary(Len(bootrom)), NextBoundary(Len(bootrom) + 1)} :
            hex_file = (bootrom \o Zeros(pad - Len(bootrom))) \o progdata

\* Bootloader byte j is data byte j of block 0, and program byte k is data
\* byte k mod 256 of block 1 + k div 256, whose targetAddress is
\* 0x10000100 + 256 * (k div 256).
NoByteLost ==
    /\ \A j \in 0..(Len(bootrom) - 1) : blocks[1].data[j + 1] = bootrom[j + 1]
    /\ \A k \in 0..(Len(progdata) - 1) :
          LET i == 1 + (k \div 256)
          IN  /\ i < Len(blocks)
              /\ blocks[i + 1].data[(k % 256) + 1] = progdata[k + 1]
              /\ blocks[i + 1].target_addr =
                     U32(4096 + ((256 * i) \div 65536), (256 * i) % 65536)

\* C10: through main, when the bootloader has at most 252 bytes no input byte
\* is lost or displaced.
C10_AsStated == (Encoded /\ Len(bootrom) <= 252) => NoByteLost

\* The same in the runs whose two reads delivered the whole files.
C10_ReadsComplete ==
    (Encoded /\ Len(bootrom) <= 252 /\ boot_read = bootrom /\ prog_read = progdata)
        => NoByteLost

----------------------------------------------------------------------------
(* SpecLoop: the chunk loop of Uf2::create on a buffer of 256 + 256 * n zero *)
(* bytes, one pass per step.  A run is followed from blocks.len() = 1, or   *)
(* from LoopLead passes before the first block whose address leaves the u32 *)
(* range; no earlier pass of such a run overflows.                          *)

LoopWindow == 60
LoopLead == 3

\* The least blocks.len() for which base_addr + blocks.len() * 256 >= 2^32.
FirstWrap == (Half - base_addr.hi) * 256

LoopStarts ==
    {[n |-> LoopWindow, at |-> 1],
     [n |-> FirstWrap + LoopWindow, at |-> FirstWrap - LoopLead]}

LoopInit ==
    /\ pc = "loop"
    /\ \E s \in LoopStarts : num_chunks = s.n /\ blocks_len = s.at
    /\ last_block = NoBlock
    /\ panicked = FALSE
    /\ overflowed = FALSE
    /\ EncIdle
    /\ MainIdle

\* for chunk in chunks { ... blocks.push(Uf2Block::allocate(...)) }
LoopPass ==
    /\ pc = "loop"
    /\ blocks_len <= num_chunks
    /\ LET overflow == addr_overflows(blocks_len, as_u32(num_chunks))
       IN  /\ \E outcome \in Outcomes(overflow, overflowed) :
                 /\ panicked' = (outcome = "panic")
                 /\ pc' = IF outcome = "panic" THEN "panic" ELSE "loop"
                 /\ last_block' =
                        IF outcome = "panic" THEN last_block
                        ELSE chunk_block(blocks_len, as_u32(num_chunks), Zeros(ChunkLen))
                 /\ blocks_len' = IF outcome = "panic" THEN blocks_len ELSE blocks_len + 1
           /\ overflowed' = (overflowed \/ overflow)
    /\ UNCHANGED <<num_chunks, encVars, mainVars>>

\* return Uf2 { blocks: blocks };
LoopExit ==
    /\ pc = "loop"
    /\ blocks_len = num_chunks + 1
    /\ pc' = "done"
    /\ UNCHANGED <<num_chunks, blocks_len, last_block, panicked, overflowed,
                   encVars, mainVars>>

LoopNext == LoopPass \/ LoopExit

SpecLoop == LoopInit /\ [][LoopNext]_vars

\* The chunk loop has pushed a block.
Pushed == last_block # NoBlock

\* C4: the targetAddress of block i is the integer 0x10000000 + i * 256, for
\* every block count the encoder can produce: the arithmetic never wraps.
C4_AsStated ==
    Pushed =>
        LET i == blocks_len - 1
        IN  last_block.target_addr = [hi |-> 4096 + (i \div 256), lo |-> (i % 256) * 256]

\* C8: create followed by as_bytes never panics, its subtractions never go
\* negative and its 32-bit arithmetic never overflows; every block's data has
\* at most 476 bytes and the image has at least one block.
C8_AsStated ==
    /\ ~panicked
    /\ ~overflowed
    /\ Pushed => Len(last_block.data) <= 476
    /\ \A i \in 1..Len(blocks) : Len(blocks[i].data) <= 476
    /\ pc = "done" => (Len(blocks) >= 1 \/ blocks_len >= 1)

====
